---- MODULE Spec2Model ----
(***************************************************************************)
(* Link monitoring and download orchestration of media-auto-saver:        *)
(* the scheduler tick, trigger_monitoring_job with its semaphore,          *)
(* process_link with its recovery step, the manual trigger endpoint and    *)
(* the link API operations that interleave with them.                      *)
(*                                                                         *)
(* Every await of the code is one atomic step.  A persistence call has     *)
(* three outcomes: it returns, it raises before its commit (nothing is     *)
(* written), or it raises in the refresh that follows its commit (the      *)
(* write is in the database and the caller sees an exception).             *)
(*                                                                         *)
(* Timestamps are kept per link as the rank of the write that set them:    *)
(* datetime.now() at a write is later than every timestamp the link holds. *)
(* 0 stands for no timestamp.  The table historylog is kept per link_id.   *)
(*                                                                         *)
(* A status write stores every column that update_status sets.  obs keeps, *)
(* per task, what the task itself found and wrote, so that a property of   *)
(* one task does not depend on what other writers do to the same row.      *)
(***************************************************************************)
EXTENDS Integers, Sequences, FiniteSets, TLC

\* ---- bounds of the model ----
NumLinks == 2      \* rows of the table link
MaxRuns == 2       \* process_link tasks created in one behaviour
MaxBatches == 2    \* instances of the scheduled job submitted in one behaviour
MaxK == 1          \* largest configured MAX_CONCURRENT_DOWNLOADS
MaxFaults == 1     \* exceptions raised and API updates made in one behaviour
NumPaths == 5      \* paths a tool can report
MaxEvents == 2     \* progress events or output lines of one tool invocation
MaxExit == 2       \* largest exit code of a tool invocation

Links == 1..NumLinks
Runs == 1..MaxRuns
Batches == 1..MaxBatches

\* ---- program constants ----
max_instances_two == 1 + 1
max_instances == 1

LinkStatus == {"IDLE", "MONITORING", "DOWNLOADING", "RECORDING", "ERROR"}
InFlight == {"DOWNLOADING", "RECORDING", "MONITORING"}

VARIABLES
    phase,        \* "startup" before lifespan reaches its yield, then "running"
    K,            \* settings.MAX_CONCURRENT_DOWNLOADS
    links,        \* table link
    history,      \* table historylog: per link_id, the rows in insertion order
    runs,         \* the process_link tasks: position and locals
    obs,          \* per task: what it found and what it wrote (history variable)
    batches,      \* the instances of the job monitor_all_links_job
    sem,          \* per instance: value of its asyncio.Semaphore
    sched_event,  \* last decision of the scheduler for the job
    response,     \* HTTP status of the last answer of POST /{link_id}/trigger
    faults,       \* exceptions raised and API updates made so far
    budget,       \* exceptions and API updates the behaviour allows
    sel,          \* downloader selection: environment, shared defaults, calls made
    api           \* per link: position of the DELETE request at work on it

vars == <<phase, K, links, history, runs, obs, batches, sem, sched_event, response, faults,
          budget, sel, api>>

\* ---- tables ----
link_type(l) == IF l % 2 = 1 THEN "CREATOR" ELSE "LIVE"

\* Statuses a previous process can have left in link l
InitStatuses(l) == IF l = 1 THEN {"IDLE", "ERROR", "DOWNLOADING"} ELSE {"IDLE"}

update_status_always_success(link, status, error_message, is_success, t) ==
    [link EXCEPT !.status = status,
                 !.last_checked_at = t,
                 !.error_message = IF status = "ERROR" THEN error_message ELSE "none",
                 !.last_success_at = t]

update_status_keeps_message(link, status, error_message, is_success, t) ==
    [link EXCEPT !.status = status,
                 !.last_checked_at = t,
                 !.error_message = IF status = "ERROR" THEN error_message ELSE @,
                 !.last_success_at = IF is_success THEN t ELSE @]

update_status(link, status, error_message, is_success, t) ==
    [link EXCEPT !.status = status,
                 !.last_checked_at = t,
                 !.error_message = IF status = "ERROR" THEN error_message ELSE "none",
                 !.last_success_at = IF is_success THEN t ELSE @]

\* datetime.now(timezone.utc) as a write to the link sees it
Now(link) == 1 + (IF link.last_checked_at >= link.last_success_at
                  THEN link.last_checked_at ELSE link.last_success_at)

create_log(link_id, status, downloaded_files, error_message) ==
    [link_id |-> link_id, status |-> status, downloaded_files |-> downloaded_files,
     error_message |-> error_message]

\* ---- tasks ----
FreeRun == [pc |-> "free", link |-> 0, batch |-> 0, result |-> "none", error |-> "none",
            files |-> <<>>, exit |-> "none"]
NoWrite == [status |-> "none", error_message |-> "none", checked |-> FALSE, success |-> FALSE]
\* A call of download_media that is not followed in detail
NoCall == [site |-> "none", how |-> "none", code |-> 0, events |-> <<>>,
           result |-> [status |-> "none", error |-> "none", downloaded_files |-> <<>>]]
FreeObs == [found |-> FALSE, skipped |-> FALSE, rows |-> <<>>, last |-> NoWrite,
            succ_set |-> FALSE, rec |-> "none", call |-> NoCall]

InProcessLink == {"get", "start", "tool", "awaiting", "blocking", "final", "log",
                  "rec_get", "rec_upd", "rec_log"}

FreeRuns == {r \in Runs : runs[r].pc = "free"}
NthFree(k) == CHOOSE r \in FreeRuns : Cardinality({x \in FreeRuns : x < r}) = k
Rank(S, l) == Cardinality({x \in S : x < l})

\* ---- outcomes of the calls into the database and the tool ----
Raises == IF faults < budget THEN {"raise"} ELSE {}
ReadOutcomes == {"ok"} \cup Raises
CommitOutcomes(can) ==
    IF can
    THEN {"ok"} \cup Raises \cup (IF faults < budget THEN {"commit_raise"} ELSE {})
    ELSE {"raise"}
Counted(o, can) == faults' = IF o # "ok" /\ can THEN faults + 1 ELSE faults

\* ---- downloader selection: paths, settings and the shared defaults ----
\* A path is the sequence of its components; an absolute path starts at "/".
PROJECT_ROOT == <<"/", "app">>
USER_COOKIES_BASE_DIR_NAME == "user_cookies"
isabs(path) == path # <<>> /\ path[1] = "/"
os_path_join(a, b) == IF isabs(b) THEN b ELSE a \o b
USER_COOKIES_DIR == os_path_join(PROJECT_ROOT, <<USER_COOKIES_BASE_DIR_NAME>>)

\* The cookie reference of a link (None is <<>>) and the per-site cookie file
\* that settings.SITE_COOKIES can name
CookieRefs == {<<>>, <<"c.txt">>}
GlobalCookie == <<"/", "etc", "cookies", "g.txt">>
CookieFiles == {os_path_join(USER_COOKIES_DIR, <<"c.txt">>), GlobalCookie}

YDL_DEFAULT_OPTS == [outtmpl |-> "creator_template", progress_hooks |-> <<>>]
GDL_DEFAULT_ARGS == <<"--directory", "MEDIA_ROOT", "--write-metadata">>

NoSelCall == [link |-> [site_name |-> "", link_type |-> "CREATOR", cookies_path |-> <<>>],
              seen |-> [link_file |-> FALSE, in_user_dir |-> FALSE, global_file |-> FALSE],
              out |-> [tool |-> "none", ydl_opts |-> YDL_DEFAULT_OPTS, gdl_args |-> <<>>]]
\* The selection is not followed
SelOff == [cwd |-> PROJECT_ROOT, files |-> {}, SITE_COOKIES |-> {},
           ydl_default |-> YDL_DEFAULT_OPTS, gdl_default |-> GDL_DEFAULT_ARGS,
           n |-> 0, first |-> NoSelCall, last |-> NoSelCall, used |-> NoSelCall.out,
           between |-> FALSE]

\* No request of the link API is at work
ApiOff == [l \in Links |-> "none"]

\* ---- Init: the database as a previous process left it ----
Tables ==
    /\ phase = "startup"
    /\ K \in 1..MaxK
    /\ links \in [Links -> [exists : {TRUE}, is_enabled : {TRUE}, link_type : {"CREATOR", "LIVE"},
                            status : LinkStatus, error_message : {"none", "tool"},
                            last_checked_at : {0}, last_success_at : {0}]]
    /\ \A l \in Links : /\ links[l].link_type = link_type(l)
                        /\ links[l].status \in InitStatuses(l)
                        /\ links[l].error_message = (IF links[l].status = "ERROR" THEN "tool" ELSE "none")
    /\ history = [l \in Links |-> <<>>]
    /\ runs = [r \in Runs |-> FreeRun]
    /\ obs = [r \in Runs |-> FreeObs]
    /\ batches = [b \in Batches |-> "idle"]
    /\ sem = [b \in Batches |-> 0]
    /\ sched_event = "none"
    /\ response = "none"
    /\ faults = 0

Init == Tables /\ budget = MaxFaults /\ sel = SelOff /\ api = ApiOff

\* ---- lifespan: reset of the links in intermediate states, then scheduler start ----
intermediate_statuses_without_downloading == {"RECORDING", "MONITORING"}
intermediate_statuses == {"DOWNLOADING", "RECORDING", "MONITORING"}

\* The reset runs before the scheduler is started and before the application
\* serves a request.  An exception of its query or of one of its writes leaves
\* lifespan: the application does not start, with part of the links reset.
Lifespan ==
    /\ phase = "startup"
    /\ LET stale == {l \in Links : links[l].exists /\ links[l].status \in intermediate_statuses}
           reset(S) == [l \in Links |-> IF l \in S
                                        THEN update_status(links[l], "IDLE", "reset", FALSE, Now(links[l]))
                                        ELSE links[l]]
       IN \E o \in {"ok"} \cup Raises :
            /\ Counted(o, TRUE)
            /\ IF o = "ok"
               THEN /\ links' = reset(stale)
                    /\ phase' = "running"
               ELSE /\ \E S \in SUBSET stale : links' = reset(S)
                    /\ phase' = "failed"
    /\ UNCHANGED <<K, history, runs, obs, batches, sem, sched_event, response, budget, sel, api>>

\* ---- scheduler: interval job monitor_all_links_job ----
RunningInstances == {b \in Batches : batches[b] \in {"selecting", "gathering"}}
Unused == {b \in Batches : batches[b] = "idle"}

\* A tick of the interval trigger.  The executor refuses the submission when
\* max_instances instances of the job are running; the run time is then dropped.
Tick ==
    /\ phase = "running"
    /\ IF Cardinality(RunningInstances) >= max_instances
       THEN /\ sched_event' = "max_instances"
            /\ UNCHANGED batches
       ELSE /\ Unused # {}
            /\ LET b == CHOOSE x \in Unused : \A y \in Unused : x <= y
               IN batches' = [batches EXCEPT ![b] = "selecting"]
            /\ sched_event' = "submitted"
    /\ UNCHANGED <<phase, K, links, history, runs, obs, sem, response, faults, budget, sel, api>>

\* ---- trigger_monitoring_job ----
\* A selection that would take only the links in IDLE
Eligible_idle_only == {l \in Links : /\ links[l].exists
                                     /\ links[l].is_enabled
                                     /\ links[l].status = "IDLE"}

Eligible == {l \in Links : /\ links[l].exists
                           /\ links[l].is_enabled
                           /\ links[l].status \notin InFlight}

\* The selection query and the creation of one task per selected link.  The
\* loop that creates the tasks has no await: the tasks start after it.
Select(b) ==
    /\ batches[b] = "selecting"
    /\ \E o \in ReadOutcomes :
         /\ Counted(o, TRUE)
         /\ IF o = "raise" \/ Eligible = {}
            THEN /\ batches' = [batches EXCEPT ![b] = IF o = "raise" THEN "failed" ELSE "finished"]
                 /\ UNCHANGED <<runs, obs, sem>>
            ELSE /\ Cardinality(FreeRuns) >= Cardinality(Eligible)
                 /\ LET slot(l) == NthFree(Rank(Eligible, l))
                        used == {slot(l) : l \in Eligible}
                        linkOf(r) == CHOOSE l \in Eligible : slot(l) = r
                    IN /\ runs' = [r \in Runs |-> IF r \in used
                                    THEN [FreeRun EXCEPT !.pc = "wait", !.link = linkOf(r), !.batch = b]
                                    ELSE runs[r]]
                       /\ obs' = [r \in Runs |-> IF r \in used THEN FreeObs ELSE obs[r]]
                 /\ sem' = [sem EXCEPT ![b] = K]
                 /\ batches' = [batches EXCEPT ![b] = "gathering"]
    /\ UNCHANGED <<phase, K, links, history, sched_event, response, budget, sel, api>>

UnitsOf(b) == {r \in Runs : runs[r].pc # "free" /\ runs[r].batch = b}

\* A wait that would return with the first finished task
Gather_first_completed(b) ==
    /\ batches[b] = "gathering"
    /\ \E r \in UnitsOf(b) : runs[r].pc = "done"
    /\ batches' = [batches EXCEPT ![b] = "finished"]
    /\ UNCHANGED <<phase, K, links, history, runs, obs, sem, sched_event, response, faults, budget, sel, api>>

\* asyncio.gather returns when every task has finished, and raises as soon as
\* one task has raised (the other tasks keep running).
Gather(b) ==
    /\ batches[b] = "gathering"
    /\ LET raised == \E r \in UnitsOf(b) : runs[r].pc = "done" /\ runs[r].exit = "raised"
       IN /\ raised \/ \A r \in UnitsOf(b) : runs[r].pc = "done"
          /\ batches' = [batches EXCEPT ![b] = IF raised THEN "failed" ELSE "finished"]
    /\ UNCHANGED <<phase, K, links, history, runs, obs, sem, sched_event, response, faults, budget, sel, api>>

\* async with sem: the unit enters process_link when the semaphore admits it.
sem_admits_always(v) == TRUE
sem_admits(v) == v > 0

Acquire(r) ==
    /\ runs[r].pc = "wait"
    /\ sem_admits(sem[runs[r].batch])
    /\ sem' = [sem EXCEPT ![runs[r].batch] = @ - 1]
    /\ runs' = [runs EXCEPT ![r].pc = "get"]
    /\ UNCHANGED <<phase, K, links, history, obs, batches, sched_event, response, faults, budget, sel, api>>

\* ---- POST /{link_id}/trigger ----
rejects_never(status) == FALSE
rejects(status) == status \in {"MONITORING", "DOWNLOADING", "RECORDING"}

\* A trigger that would take a slot of the running instance's semaphore
trigger_link_task_takes_slot(l) ==
    /\ phase = "running"
    /\ \E o \in ReadOutcomes :
         /\ Counted(o, TRUE)
         /\ IF o = "raise" \/ ~links[l].exists \/ rejects(links[l].status)
            THEN /\ response' = IF o = "raise" THEN "500"
                                ELSE IF ~links[l].exists THEN "404" ELSE "400"
                 /\ UNCHANGED <<runs, obs, sem>>
            ELSE /\ FreeRuns # {}
                 /\ runs' = [runs EXCEPT ![NthFree(0)] = [FreeRun EXCEPT !.pc = "get", !.link = l]]
                 /\ obs' = [obs EXCEPT ![NthFree(0)] = FreeObs]
                 /\ sem' = [b \in Batches |-> IF batches[b] = "gathering" THEN sem[b] - 1 ELSE sem[b]]
                 /\ response' = "200"
    /\ UNCHANGED <<phase, K, links, history, batches, sched_event, budget, sel, api>>

trigger_link_task(l) ==
    /\ phase = "running"
    /\ \E o \in ReadOutcomes :
         /\ Counted(o, TRUE)
         /\ IF o = "raise" \/ ~links[l].exists \/ rejects(links[l].status)
            THEN /\ response' = IF o = "raise" THEN "500"
                                ELSE IF ~links[l].exists THEN "404" ELSE "400"
                 /\ UNCHANGED <<runs, obs>>
            ELSE \* asyncio.create_task(process_link(link_id))
                 /\ FreeRuns # {}
                 /\ runs' = [runs EXCEPT ![NthFree(0)] = [FreeRun EXCEPT !.pc = "get", !.link = l]]
                 /\ obs' = [obs EXCEPT ![NthFree(0)] = FreeObs]
                 /\ response' = "200"
    /\ UNCHANGED <<phase, K, links, history, batches, sem, sched_event, budget, sel, api>>

\* ---- PUT /{link_id} with is_enabled ----
update_link(l, enabled) ==
    /\ phase = "running"
    /\ links[l].exists
    /\ links[l].is_enabled # enabled
    /\ faults < budget
    /\ faults' = faults + 1
    /\ links' = [links EXCEPT ![l].is_enabled = enabled]
    /\ UNCHANGED <<phase, K, history, runs, obs, batches, sem, sched_event, response, budget, sel, api>>

\* ---- process_link ----
CanWrite(l) == links[l].exists
CanLog(l) == TRUE

Leave_without_release(r, how) ==
    /\ runs' = [runs EXCEPT ![r].pc = "done", ![r].exit = how]
    /\ sem' = IF runs[r].batch # 0 /\ runs[r].result = "success"
              THEN [sem EXCEPT ![runs[r].batch] = @ + 1] ELSE sem

\* Leaving process_link: the unit's async with releases its semaphore.
Leave(r, how) ==
    /\ runs' = [runs EXCEPT ![r].pc = "done", ![r].exit = how]
    /\ sem' = IF runs[r].batch # 0 THEN [sem EXCEPT ![runs[r].batch] = @ + 1] ELSE sem

\* An exception in the try block is caught by the outer except.
Caught(r) ==
    /\ runs' = [runs EXCEPT ![r].pc = "rec_get"]
    /\ obs' = [obs EXCEPT ![r].rec = "entered"]
    /\ UNCHANGED sem

WriteStatus(l, status, error_message, is_success) ==
    links' = [links EXCEPT ![l] = update_status(@, status, error_message, is_success, Now(@))]

\* obs[r].skipped: the link was missing or disabled when the task fetched it.
\* What the task wrote last
Wrote(r, l) ==
    [obs[r] EXCEPT !.last = [status |-> links'[l].status,
                             error_message |-> links'[l].error_message,
                             checked |-> links'[l].last_checked_at > links[l].last_checked_at,
                             success |-> links'[l].last_success_at > links[l].last_success_at],
                   !.succ_set = @ \/ links'[l].last_success_at # links[l].last_success_at]

AppendLog_unless_failure(l, status, files, error_message) ==
    history' = IF status = "FAILURE" THEN history
               ELSE [history EXCEPT ![l] = Append(@, create_log(l, status, files, error_message))]

AppendLog_without_files(l, status, files, error_message) ==
    history' = [history EXCEPT ![l] = Append(@, create_log(l, status, <<>>, error_message))]

\* db.add(db_obj); await db.commit()
AppendLog(l, status, files, error_message) ==
    history' = [history EXCEPT ![l] = Append(@, create_log(l, status, files, error_message))]

\* The rows the task has appended, in order
Logged(r, l) ==
    [obs[r] EXCEPT !.rows = @ \o [i \in 1..(Len(history'[l]) - Len(history[l])) |->
                                    history'[l][Len(history[l]) + i].status]]

\* if download_result["status"] == "success": ... else: ...
final_status_always_idle(result) == "IDLE"
final_status(result) == IF result = "success" THEN "IDLE" ELSE "ERROR"
history_status(result) == IF result = "success" THEN "SUCCESS" ELSE "FAILURE"

\* link = await crud.link.get(...); if not link or not link.is_enabled: return
Get(r) ==
    /\ runs[r].pc = "get"
    /\ LET l == runs[r].link IN
       \E o \in ReadOutcomes :
         /\ Counted(o, TRUE)
         /\ IF o = "raise"
            THEN /\ runs' = [runs EXCEPT ![r].pc = "rec_get"]
                 /\ obs' = [obs EXCEPT ![r].rec = "entered",
                                       ![r].skipped = ~(links[l].exists /\ links[l].is_enabled)]
                 /\ UNCHANGED sem
            ELSE IF links[l].exists /\ links[l].is_enabled
            THEN /\ runs' = [runs EXCEPT ![r].pc = "start"]
                 /\ obs' = [obs EXCEPT ![r].found = TRUE]
                 /\ UNCHANGED sem
            ELSE /\ Leave(r, "returned")
                 /\ obs' = [obs EXCEPT ![r].skipped = TRUE]
    /\ UNCHANGED <<phase, K, links, history, batches, sched_event, response, budget, sel, api>>

start_status_swapped(lt) == IF lt = "CREATOR" THEN "RECORDING" ELSE "DOWNLOADING"
start_status(lt) == IF lt = "CREATOR" THEN "DOWNLOADING" ELSE "RECORDING"

\* update_status(status=current_action_status, is_success=False)
Start(r) ==
    /\ runs[r].pc = "start"
    /\ LET l == runs[r].link IN
       \E o \in CommitOutcomes(CanWrite(l)) :
         /\ Counted(o, CanWrite(l))
         /\ IF o = "raise"
            THEN UNCHANGED links
            ELSE WriteStatus(l, start_status(links[l].link_type), "none", FALSE)
         /\ IF o = "ok"
            THEN /\ runs' = [runs EXCEPT ![r].pc = "tool"]
                 /\ obs' = [obs EXCEPT ![r] = Wrote(r, l)]
            ELSE /\ runs' = [runs EXCEPT ![r].pc = "rec_get"]
                 /\ obs' = [obs EXCEPT ![r] = [(IF o = "raise" THEN obs[r] ELSE Wrote(r, l))
                                                EXCEPT !.rec = "entered"]]
    /\ UNCHANGED <<phase, K, history, batches, sem, sched_event, response, budget, sel, api>>

\* download_result = await download_media(link)
Tool(r) ==
    /\ runs[r].pc = "tool"
    /\ \E o \in {"success", "error", "raise"} :
         /\ IF o = "raise"
            THEN Caught(r)
            ELSE /\ runs' = [runs EXCEPT ![r].pc = "final", ![r].result = o,
                                         ![r].error = IF o = "error" THEN "tool" ELSE "none"]
                 /\ UNCHANGED <<obs, sem>>
    /\ UNCHANGED <<phase, K, links, history, batches, sched_event, response, faults, budget, sel, api>>

\* A terminal write that would store the status and the history row in one
\* commit
Final_in_one_commit(r) ==
    /\ runs[r].pc = "final"
    /\ LET l == runs[r].link
           ok == runs[r].result = "success"
       IN
       \E o \in CommitOutcomes(CanWrite(l)) :
         /\ Counted(o, CanWrite(l))
         /\ IF o = "raise"
            THEN UNCHANGED <<links, history>>
            ELSE /\ WriteStatus(l, final_status(runs[r].result), runs[r].error, ok)
                 /\ AppendLog(l, history_status(runs[r].result), <<>>, runs[r].error)
         /\ IF o = "ok"
            THEN /\ runs' = [runs EXCEPT ![r].pc = "log"]
                 /\ obs' = [obs EXCEPT ![r] = Wrote(r, l)]
            ELSE /\ runs' = [runs EXCEPT ![r].pc = "rec_get"]
                 /\ obs' = [obs EXCEPT ![r] = [(IF o = "raise" THEN obs[r] ELSE Wrote(r, l))
                                                EXCEPT !.rec = "entered"]]
    /\ UNCHANGED <<phase, K, batches, sem, sched_event, response, budget, sel, api>>

\* update_status(IDLE, is_success=True) or update_status(ERROR, error_message=error_msg)
Final(r) ==
    /\ runs[r].pc = "final"
    /\ LET l == runs[r].link
           ok == runs[r].result = "success"
       IN
       \E o \in CommitOutcomes(CanWrite(l)) :
         /\ Counted(o, CanWrite(l))
         /\ IF o = "raise"
            THEN UNCHANGED links
            ELSE WriteStatus(l, final_status(runs[r].result), runs[r].error, ok)
         /\ IF o = "ok"
            THEN /\ runs' = [runs EXCEPT ![r].pc = "log"]
                 /\ obs' = [obs EXCEPT ![r] = Wrote(r, l)]
            ELSE /\ runs' = [runs EXCEPT ![r].pc = "rec_get"]
                 /\ obs' = [obs EXCEPT ![r] = [(IF o = "raise" THEN obs[r] ELSE Wrote(r, l))
                                                EXCEPT !.rec = "entered"]]
    /\ UNCHANGED <<phase, K, history, batches, sem, sched_event, response, budget, sel, api>>

\* The file list that create_log is given: downloaded_files is passed in the
\* success branch only
logged_files_always(result, files) == files
logged_files(result, files) == IF result = "success" THEN files ELSE <<>>

\* create_log(SUCCESS, downloaded_files) or create_log(FAILURE, error_msg)
Log(r) ==
    /\ runs[r].pc = "log"
    /\ LET l == runs[r].link
           st == history_status(runs[r].result)
           msg == runs[r].error
           files == logged_files(runs[r].result, runs[r].files)
       IN
       \E o \in CommitOutcomes(CanLog(l)) :
         /\ Counted(o, CanLog(l))
         /\ IF o = "raise"
            THEN UNCHANGED history
            ELSE AppendLog(l, st, files, msg)
         /\ IF o = "ok"
            THEN /\ Leave(r, "returned")
                 /\ obs' = [obs EXCEPT ![r] = Logged(r, l)]
            ELSE /\ runs' = [runs EXCEPT ![r].pc = "rec_get"]
                 /\ obs' = [obs EXCEPT ![r] = [Logged(r, l) EXCEPT !.rec = "entered"]]
                 /\ UNCHANGED sem
    /\ UNCHANGED <<phase, K, links, batches, sched_event, response, budget, sel, api>>

\* except Exception as inner_e: logged, nothing is raised to the caller.
inner_except_reraises(o) == IF o = "ok" THEN "returned" ELSE "raised"
inner_except(o) == "returned"

\* link_for_status = await crud.link.get(...); if link_for_status: ...
RecGet(r) ==
    /\ runs[r].pc = "rec_get"
    /\ LET l == runs[r].link IN
       \E o \in ReadOutcomes :
         /\ Counted(o, TRUE)
         /\ IF o = "ok" /\ links[l].exists
            THEN /\ runs' = [runs EXCEPT ![r].pc = "rec_upd"]
                 /\ UNCHANGED <<obs, sem>>
            ELSE /\ Leave(r, inner_except(o))
                 /\ obs' = [obs EXCEPT ![r].rec = IF o = "ok" THEN "notfound" ELSE "failed"]
    /\ UNCHANGED <<phase, K, links, history, batches, sched_event, response, budget, sel, api>>

\* update_status(ERROR, error_message="Processing Exception: ...")
RecUpd(r) ==
    /\ runs[r].pc = "rec_upd"
    /\ LET l == runs[r].link IN
       \E o \in CommitOutcomes(CanWrite(l)) :
         /\ Counted(o, CanWrite(l))
         /\ IF o = "raise"
            THEN UNCHANGED links
            ELSE WriteStatus(l, "ERROR", "exception", FALSE)
         /\ IF o = "ok"
            THEN /\ runs' = [runs EXCEPT ![r].pc = "rec_log"]
                 /\ obs' = [obs EXCEPT ![r] = Wrote(r, l)]
                 /\ UNCHANGED sem
            ELSE /\ Leave(r, inner_except(o))
                 /\ obs' = [obs EXCEPT ![r] = [(IF o = "raise" THEN obs[r] ELSE Wrote(r, l))
                                                EXCEPT !.rec = "failed"]]
    /\ UNCHANGED <<phase, K, history, batches, sched_event, response, budget, sel, api>>

\* create_log(FAILURE, error_message="Processing Exception: ...")
RecLog(r) ==
    /\ runs[r].pc = "rec_log"
    /\ LET l == runs[r].link IN
       \E o \in CommitOutcomes(CanLog(l)) :
         /\ Counted(o, CanLog(l))
         /\ IF o = "raise"
            THEN UNCHANGED history
            ELSE AppendLog(l, "FAILURE", <<>>, "exception")
         /\ Leave(r, inner_except(o))
         /\ obs' = [obs EXCEPT ![r] = [Logged(r, l) EXCEPT !.rec = IF o = "ok" THEN "ok" ELSE "failed"]]
    /\ UNCHANGED <<phase, K, links, batches, sched_event, response, budget, sel, api>>

process_link(r) ==
    \/ Get(r) \/ Start(r) \/ Tool(r) \/ Final(r) \/ Log(r)
    \/ RecGet(r) \/ RecUpd(r) \/ RecLog(r)

Next ==
    \/ Lifespan
    \/ Tick
    \/ \E b \in Batches : Select(b) \/ Gather(b)
    \/ \E r \in Runs : Acquire(r) \/ process_link(r)
    \/ \E l \in Links : trigger_link_task(l)
    \/ \E l \in Links, e \in BOOLEAN : update_link(l, e)

Spec == Init /\ [][Next]_vars

\* ---- download_media ----
\* The file system as the tool leaves it: path p is a finished regular file,
\* absent from disk, a partial file (.part, .temp, .ytdl) or a directory.
Paths == 1..NumPaths
os_path_exists(p) == p % 4 # 2
os_path_isfile(p) == p % 4 \in {1, 3}
temp_suffix(p) == p % 4 = 3

\* An event of the tool: 0 for a progress event that is not 'finished' or
\* carries no path, or an output line the path pattern does not match;
\* otherwise the path it names.
Events == 0..NumPaths
EventSeqs == UNION {[1..k -> Events] : k \in 0..MaxEvents}

GalleryDlSites == {"pixiv", "instagram", "deviantart", "artstation", "weibo", "xiaohongshu"}
Sites == {"pixiv", "youtube", ""}

\* link.site_name.lower() if link.site_name else "", on the site names used here
lower_identity(site) == site
lower(site) ==
    CASE site = "Pixiv" -> "pixiv"
      [] site = "INSTAGRAM" -> "instagram"
      [] site = "DeviantArt" -> "deviantart"
      [] site = "ArtStation" -> "artstation"
      [] site = "YouTube" -> "youtube"
      [] OTHER -> site

get_downloader_for_link(site) ==
    IF lower(site) \in GalleryDlSites THEN "gallery-dl" ELSE "yt-dlp"

\* ydl_filename_hook: the path is appended when it is no partial file and is
\* a regular file on disk
ydl_accepts(p) == p # 0 /\ ~temp_suffix(p) /\ os_path_exists(p) /\ os_path_isfile(p)
\* the parser of the gallery-dl output
gdl_accepts(p) == p # 0 /\ os_path_exists(p) /\ os_path_isfile(p)

ydl_files(events) == SelectSeq(events, ydl_accepts)
gdl_files(events) == SelectSeq(events, gdl_accepts)

\* list(set(downloaded_files_list)): every path once (the order is not modelled)
Dedup_keeps_all(files) == files
Dedup(files) ==
    LET first == {i \in 1..Len(files) : \A j \in 1..(i - 1) : files[j] # files[i]}
    IN [k \in 1..Cardinality(first) |->
           files[CHOOSE i \in first : Cardinality({j \in first : j < i}) = k - 1]]

Result(status, error, files) == [status |-> status, error |-> error, downloaded_files |-> files]

\* ydl.download returned: the hook's list decides
ydl_returned_always_success(files) == Result("success", "none", Dedup(files))
ydl_returned(files) ==
    IF files # <<>>
    THEN Result("success", "none", Dedup(files))
    ELSE Result("error", "no_files_detected", <<>>)

\* except yt_dlp.utils.DownloadError
ydl_download_error_drops_files(files) == Result("error", "download_error", <<>>)
ydl_download_error(files) == Result("error", "download_error", Dedup(files))

\* f"gallery-dl failed with code {process.returncode}. Stderr: ..."
failed_with_code(code) == "failed_with_code_" \o ToString(code)

\* process.returncode decides
gdl_returned_needs_files(code, files) ==
    IF code = 0 /\ files # <<>>
    THEN Result("success", "none", Dedup(files))
    ELSE Result("error", IF code = 0 THEN "no_files_detected" ELSE failed_with_code(code),
                Dedup(files))
gdl_returned_ignores_code(code, files) == Result("success", "none", Dedup(files))
gdl_returned(code, files) ==
    IF code = 0
    THEN Result("success", "none", Dedup(files))
    ELSE Result("error", failed_with_code(code), Dedup(files))

\* except FileNotFoundError
gdl_not_found_reraises == Result("raised", "none", <<>>)
gdl_not_found == Result("error", "command_not_found", <<>>)

\* The calls of download_media: the link's site, how the tool ended (its
\* return, or the exception it raised), its exit code and its events.
Calls ==
    {c \in [site : Sites, how : {"returned", "DownloadError", "FileNotFoundError", "Exception"},
            code : 0..MaxExit, events : EventSeqs] :
        /\ c.how # "returned" => c.code = 0
        /\ IF get_downloader_for_link(c.site) = "yt-dlp"
           THEN c.how # "FileNotFoundError"
           ELSE c.how # "DownloadError" /\ (c.how # "returned" => c.events = <<>>)}

download_media(c) ==
    IF get_downloader_for_link(c.site) = "yt-dlp"
    THEN CASE c.how = "returned" -> ydl_returned(ydl_files(c.events))
           [] c.how = "DownloadError" -> ydl_download_error(ydl_files(c.events))
           [] OTHER -> Result("error", "unexpected_preparation", <<>>)
    ELSE CASE c.how = "returned" -> gdl_returned(c.code, gdl_files(c.events))
           [] c.how = "FileNotFoundError" -> gdl_not_found
           [] OTHER -> Result("error", "exception_during_execution", <<>>)

\* The event loop is inside a call that does not await: no coroutine runs
\* until the call returns.
LoopHeld == \E r \in Runs : runs[r].pc = "blocking"

\* download_result = await download_media(link), followed call by call.
\* gallery-dl is started with asyncio.create_subprocess_exec and awaited with
\* process.communicate(): the task is suspended while the process runs.
\* ydl.download([link.url]) is called in the coroutine itself.
suspends(tool) == tool = "gallery-dl"

Invoke(r) ==
    /\ ~LoopHeld
    /\ runs[r].pc = "tool"
    /\ \E site \in Sites :
         /\ runs' = [runs EXCEPT ![r].pc = IF suspends(get_downloader_for_link(site))
                                            THEN "awaiting" ELSE "blocking"]
         /\ obs' = [obs EXCEPT ![r].call = [NoCall EXCEPT !.site = site]]
    /\ UNCHANGED <<phase, K, links, history, batches, sem, sched_event, response, faults, budget, sel, api>>

\* The tool ends: the call returns, or the loop resumes the suspended task.
Download(r) ==
    /\ runs[r].pc = "blocking" \/ (runs[r].pc = "awaiting" /\ ~LoopHeld)
    /\ \E c \in Calls :
         LET res == download_media(c) IN
         /\ c.site = obs[r].call.site
         /\ runs' = [runs EXCEPT ![r].pc = IF res.status = "raised" THEN "rec_get" ELSE "final",
                                 ![r].result = IF res.status = "raised" THEN "none" ELSE res.status,
                                 ![r].error = res.error,
                                 ![r].files = res.downloaded_files]
         /\ obs' = [obs EXCEPT ![r].call = [site |-> c.site, how |-> c.how, code |-> c.code,
                                            events |-> c.events, result |-> res],
                               ![r].rec = IF res.status = "raised" THEN "entered" ELSE @]
    /\ UNCHANGED <<phase, K, links, history, batches, sem, sched_event, response, faults, budget, sel, api>>

\* One manually triggered task, its tool invocation followed call by call
DlTrigger(l) ==
    /\ \A r \in Runs : runs[r].pc = "free"
    /\ trigger_link_task(l)

\* The endpoint answers a request for a link whose task is at work
DlAnswer(l) ==
    /\ ~LoopHeld
    /\ \E r \in Runs : runs[r].link = l /\ runs[r].pc \in {"tool", "awaiting", "blocking"}
    /\ rejects(links[l].status)
    /\ trigger_link_task(l)

\* The steps of the task that the event loop runs
DlTask(r) ==
    /\ ~LoopHeld
    /\ \/ Get(r) \/ Start(r) \/ Final(r) \/ Log(r) \/ RecGet(r) \/ RecUpd(r) \/ RecLog(r)

DlNext ==
    \/ Lifespan
    \/ \E l \in Links : DlTrigger(l) \/ DlAnswer(l)
    \/ \E r \in Runs : DlTask(r) \/ Invoke(r) \/ Download(r)

DlSpec == Init /\ [][DlNext]_vars

\* ---- get_downloader_for_link with its configuration ----
SelSites == {"", "pixiv", "Pixiv", "INSTAGRAM", "DeviantArt", "ArtStation", "weibo",
             "xiaohongshu", "YouTube", "pixiv.net"}
SelLinks == [site_name : SelSites, link_type : {"CREATOR", "LIVE"}, cookies_path : CookieRefs]
\* The sites whose first call is remembered, to compare a later call with it
ProbeSites == {"YouTube", "Pixiv"}
\* The directory the process runs in, and the sites settings.SITE_COOKIES names
Cwds == {PROJECT_ROOT, USER_COOKIES_DIR}
SiteCookieSettings == {{}, {"pixiv", "youtube"}}

\* os.path.exists(path): a relative path is looked up from the working directory
exists_path(env, path) == os_path_join(env.cwd, path) \in env.files

\* The link's own file if it is found, else the site's file if it is found
cookie_path_to_use(link, env) ==
    IF link.cookies_path # <<>> /\ exists_path(env, link.cookies_path)
    THEN link.cookies_path
    ELSE IF lower(link.site_name) \in env.SITE_COOKIES /\ exists_path(env, GlobalCookie)
    THEN GlobalCookie
    ELSE <<>>

\* if link_type == LinkType.LIVE: outtmpl and live_from_start
live_opts_for_all(opts, kind) ==
    ("live_from_start" :> TRUE) @@ [opts EXCEPT !.outtmpl = "live_recordings_template"]
live_opts(opts, kind) ==
    IF kind = "LIVE"
    THEN ("live_from_start" :> TRUE) @@ [opts EXCEPT !.outtmpl = "live_recordings_template"]
    ELSE opts

with_cookiefile(opts, cookie) == IF cookie # <<>> THEN ("cookiefile" :> cookie) @@ opts ELSE opts
with_cookies(args, cookie) == IF cookie # <<>> THEN args \o <<"--cookies", cookie>> ELSE args

\* YDL_DEFAULT_OPTS.copy() and GDL_DEFAULT_ARGS[:]: what is written to the
\* returned configuration is not written to the shared default.
shared_after_write_alias(shared, written) == written
shared_after_write(shared, written) == shared

\* The pair (downloader name, configuration) that get_downloader_for_link
\* returns; the configuration of the other tool is left at its empty value.
downloader_for_link(link, env) ==
    LET tool == get_downloader_for_link(link.site_name)
        cookie == cookie_path_to_use(link, env)
    IN [tool |-> tool,
        ydl_opts |-> IF tool = "yt-dlp"
                     THEN with_cookiefile(live_opts(env.ydl_default, link.link_type), cookie)
                     ELSE YDL_DEFAULT_OPTS,
        gdl_args |-> IF tool = "gallery-dl" THEN with_cookies(env.gdl_default, cookie) ELSE <<>>]

\* What the call could see on disk
Seen(link, env) ==
    [link_file |-> link.cookies_path # <<>> /\ exists_path(env, link.cookies_path),
     in_user_dir |-> /\ link.cookies_path # <<>>
                     /\ os_path_join(USER_COOKIES_DIR, link.cookies_path) \in env.files,
     global_file |-> lower(link.site_name) \in env.SITE_COOKIES /\ GlobalCookie \in env.files]

OtherVars == <<phase, K, links, history, runs, obs, batches, sem, sched_event, response, faults,
               budget, api>>

\* One call of get_downloader_for_link
SelCall(link) ==
    /\ LET out == downloader_for_link(link, sel)
           call == [link |-> link, seen |-> Seen(link, sel), out |-> out]
           probe == sel.n = 0 /\ link.site_name \in ProbeSites
       IN sel' = [sel EXCEPT !.n = IF sel.n = 0 THEN (IF probe THEN 1 ELSE 0) ELSE 2,
                             !.first = IF probe THEN call ELSE @,
                             !.last = call,
                             !.used = out,
                             !.ydl_default = IF out.tool = "yt-dlp"
                                             THEN shared_after_write(@, out.ydl_opts) ELSE @,
                             !.gdl_default = IF out.tool = "gallery-dl"
                                             THEN shared_after_write(@, out.gdl_args) ELSE @]
    /\ UNCHANGED OtherVars

\* download_media: ydl_opts['progress_hooks'] = [ydl_filename_hook], on the
\* configuration the last call returned
SelHook ==
    /\ sel.last.out.tool = "yt-dlp"
    /\ sel.used.ydl_opts.progress_hooks = <<>>
    /\ LET opts == [sel.used.ydl_opts EXCEPT !.progress_hooks = <<"ydl_filename_hook">>]
       IN sel' = [sel EXCEPT !.used.ydl_opts = opts,
                             !.ydl_default = shared_after_write(@, opts),
                             !.between = @ \/ (/\ sel.n >= 1 /\ sel.last.link # sel.first.link
                                               /\ "cookiefile" \in DOMAIN sel.last.out.ydl_opts)]
    /\ UNCHANGED OtherVars

\* A cookie file is created or removed
SelTouch(f) ==
    /\ sel' = [sel EXCEPT !.files = IF f \in @ THEN @ \ {f} ELSE @ \cup {f}]
    /\ UNCHANGED OtherVars

SelNext ==
    \/ \E link \in SelLinks : SelCall(link)
    \/ SelHook
    \/ \E f \in CookieFiles : SelTouch(f)

SelInit ==
    /\ Tables /\ budget = MaxFaults /\ api = ApiOff
    /\ links[1].status = "IDLE"
    /\ \E c \in Cwds, F \in SUBSET CookieFiles, S \in SiteCookieSettings :
         sel = [SelOff EXCEPT !.cwd = c, !.files = F, !.SITE_COOKIES = S]

SelSpec == SelInit /\ [][SelNext]_vars

\* ---- trigger_monitoring_job called directly ----
\* A call of trigger_monitoring_job that does not come from the scheduler's
\* executor: nothing limits the calls that run at the same time.
DirectCall ==
    /\ phase = "running"
    /\ Unused # {}
    /\ LET b == CHOOSE x \in Unused : \A y \in Unused : x <= y
       IN batches' = [batches EXCEPT ![b] = "selecting"]
    /\ UNCHANGED <<phase, K, links, history, runs, obs, sem, sched_event, response, faults, budget, sel, api>>

DirectNext == Next \/ DirectCall

DirectSpec == Init /\ [][DirectNext]_vars

\* ---- the link API: PUT /{link_id}, DELETE /{link_id}, POST / ----
\* The bodies of a PUT request: the fields of LinkUpdate that the client set
LinkUpdates == {("status" :> "IDLE"), ("status" :> "DOWNLOADING"), ("error_message" :> "user")}

\* for field in obj_data: if field in update_data: setattr(db_obj, field, ...)
crud_link_update(db_obj, update_data) ==
    [field \in DOMAIN db_obj |->
        IF field \in DOMAIN update_data THEN update_data[field] ELSE db_obj[field]]

\* update_link: the link is fetched and the set fields are stored
put_link(l, link_in) ==
    /\ phase = "running"
    /\ links[l].exists
    /\ faults < budget
    /\ faults' = faults + 1
    /\ links' = [links EXCEPT ![l] = crud_link_update(@, link_in)]
    /\ UNCHANGED <<phase, K, history, runs, obs, batches, sem, sched_event, response, budget, sel, api>>

\* delete_link, first commit: crud.history_log.remove_by_link
remove_by_link(l) ==
    /\ phase = "running"
    /\ links[l].exists
    /\ api[l] = "none"
    /\ history' = [history EXCEPT ![l] = <<>>]
    /\ api' = [api EXCEPT ![l] = "removing"]
    /\ UNCHANGED <<phase, K, links, runs, obs, batches, sem, sched_event, response, faults, budget, sel>>

\* delete_link, second commit: crud.link.remove
remove(l) ==
    /\ api[l] = "removing"
    /\ links' = [links EXCEPT ![l].exists = FALSE]
    /\ api' = [api EXCEPT ![l] = "none"]
    /\ UNCHANGED <<phase, K, history, runs, obs, batches, sem, sched_event, response, faults, budget, sel>>

delete_link(l) == remove_by_link(l) \/ remove(l)

\* The status a POST request can carry: LinkCreate has every field of LinkBase
LinkCreates == {"IDLE", "DOWNLOADING"}

\* create_link.  The table has an integer primary key without AUTOINCREMENT:
\* the new row gets the largest id in use plus one, so the id of a deleted
\* link is given again when no link with a larger id is left.
create_link(l, status) ==
    /\ phase = "running"
    /\ ~links[l].exists /\ \A k \in Links : k > l => ~links[k].exists
    /\ faults < budget
    /\ faults' = faults + 1
    /\ links' = [links EXCEPT ![l] = [exists |-> TRUE, is_enabled |-> TRUE,
                                      link_type |-> link_type(l), status |-> status,
                                      error_message |-> "none",
                                      last_checked_at |-> 0, last_success_at |-> 0]]
    /\ UNCHANGED <<phase, K, history, runs, obs, batches, sem, sched_event, response, budget, sel, api>>

\* The API requests and the tasks they start; no batch runs
ApiNext ==
    \/ Lifespan
    \/ \E l \in Links : trigger_link_task(l)
    \/ \E r \in Runs : process_link(r)
    \/ \E l \in Links, link_in \in LinkUpdates : put_link(l, link_in)
    \/ \E l \in Links : delete_link(l)
    \/ \E l \in Links, status \in LinkCreates : create_link(l, status)

ApiInit == Init /\ links[1].status = "IDLE"
ApiSpec == ApiInit /\ [][ApiNext]_vars

\* The event loop runs every task that is ready, and every call into the
\* database or the tool returns or raises.
FairSpec ==
    /\ Spec
    /\ \A r \in Runs : WF_vars(Acquire(r)) /\ WF_vars(process_link(r))
    /\ \A b \in Batches : WF_vars(Select(b)) /\ WF_vars(Gather(b))

\* The same program with room for one more exception or API update
WideInit == Tables /\ budget = MaxFaults + 1 /\ sel = SelOff /\ api = ApiOff
WideSpec == WideInit /\ [][Next]_vars

\* ---- properties ----
Done(r) == runs[r].pc = "done"
Inside(b) == {r \in UnitsOf(b) : runs[r].pc \in InProcessLink}
Waiting(b) == {r \in UnitsOf(b) : runs[r].pc = "wait"}
LastRow(r) == obs[r].rows[Len(obs[r].rows)]
\* The task has written its start status and not yet its terminal status
Acting(r) == runs[r].pc \in {"tool", "final"}
\* The tool reported a failure, or an exception was caught
Failed(r) == runs[r].result = "error" \/ obs[r].rec # "none"

\* C1: during one run of trigger_monitoring_job with bound K, at most K of the
\* units it created are inside process_link at any moment, also when it
\* selected more than K links.
C1_AtMostKInside ==
    \A b \in Batches : Cardinality(Inside(b)) <= K

C1_Witness ==
    \E b \in Batches : /\ Cardinality(UnitsOf(b)) > K
                       /\ Cardinality(Inside(b)) = K
                       /\ Waiting(b) # {}

\* C2: at most one process_link task acts on a given link at any time, between
\* its start transition and its terminal write.
C2_OneRunPerLink ==
    \A r1, r2 \in Runs :
        (r1 # r2 /\ Acting(r1) /\ Acting(r2)) => runs[r1].link # runs[r2].link

C4_AlwaysErrorAndFailureRow ==
    \A r \in Runs : (Done(r) /\ obs[r].found) =>
        /\ obs[r].last.status \notin {"DOWNLOADING", "RECORDING"}
        /\ Failed(r) => /\ obs[r].last.status = "ERROR"
                        /\ Len(obs[r].rows) >= 1 /\ LastRow(r) = "FAILURE"

\* C4: a task whose tool reported a failure, or whose recovery step completed
\* after a caught exception, ends with status ERROR written and a FAILURE row
\* as its last row; a task returns with DOWNLOADING or RECORDING as the status
\* it wrote last only when its recovery step failed or found no link.
C4_ErrorUnlessRecoveryFails ==
    \A r \in Runs : (Done(r) /\ obs[r].found) =>
        /\ (runs[r].result = "error" /\ obs[r].rec = "none") =>
             (obs[r].last.status = "ERROR" /\ obs[r].rows = <<"FAILURE">>)
        /\ obs[r].rec = "ok" =>
             (obs[r].last.status = "ERROR" /\ Len(obs[r].rows) >= 1 /\ LastRow(r) = "FAILURE")
        /\ obs[r].last.status \in {"DOWNLOADING", "RECORDING"} =>
             obs[r].rec \in {"failed", "notfound"}

C4_Witness ==
    \E r \in Runs : /\ Done(r) /\ obs[r].found /\ obs[r].rec = "ok"
                    /\ runs[r].result = "none"
                    /\ obs[r].last.status = "ERROR"
                    /\ links[runs[r].link].status = "ERROR"

\* C5: no unit of a batch and no manually triggered task is created for a link
\* whose status is MONITORING, DOWNLOADING or RECORDING at that moment, and the
\* request that is answered 400 finds such a link and changes nothing.
C5_NoRunOnInFlightLink ==
    [][ /\ \A r \in Runs : (runs[r].pc = "free" /\ runs'[r].pc # "free") =>
                               links[runs'[r].link].status \notin InFlight
        /\ (response' = "400" /\ response # "400") =>
             /\ \E l \in Links : links[l].status \in InFlight
             /\ UNCHANGED <<phase, K, links, history, runs, obs, batches, sem, sched_event, faults>>
      ]_vars

C5_Witness ==
    /\ response = "400"
    /\ \E b \in Batches, l \in Links :
         /\ batches[b] = "gathering"
         /\ links[l].is_enabled /\ links[l].status \in InFlight
         /\ UnitsOf(b) # {}
         /\ \A r \in UnitsOf(b) : runs[r].pc = "wait" /\ runs[r].link # l

\* C6 as stated: when a task ends with status ERROR, error_message is set, the
\* last-checked timestamp has advanced and the task has not changed the
\* last-success timestamp.
C6_SuccessTimeAsAtStart ==
    \A r \in Runs : (Done(r) /\ obs[r].last.status = "ERROR") =>
        /\ obs[r].last.error_message # "none"
        /\ obs[r].last.checked
        /\ ~obs[r].succ_set

\* C6: when a task ends with status ERROR, the write that set ERROR set
\* error_message, advanced the last-checked timestamp and left the
\* last-success timestamp as it was; the task has changed the last-success
\* timestamp only if its tool reported success before the exception it caught.
C6_ErrorWrite ==
    \A r \in Runs : (Done(r) /\ obs[r].last.status = "ERROR") =>
        /\ obs[r].last.error_message # "none"
        /\ obs[r].last.checked
        /\ ~obs[r].last.success
        /\ obs[r].succ_set => (runs[r].result = "success" /\ obs[r].rec # "none")

C6_Witness ==
    \E r \in Runs : /\ Done(r) /\ obs[r].last.status = "ERROR"
                    /\ runs[r].result = "error" /\ obs[r].rec = "none"
                    /\ ~obs[r].succ_set
                    /\ links[runs[r].link].error_message = "tool"

\* C7 as stated: when the tool's outcome is success, the task ends with status
\* IDLE, error_message cleared and both timestamps advanced.
C7_SuccessAlwaysIdle ==
    \A r \in Runs : (Done(r) /\ runs[r].result = "success") =>
        obs[r].last = [status |-> "IDLE", error_message |-> "none",
                       checked |-> TRUE, success |-> TRUE]

\* C7: when the tool's outcome is success and neither the IDLE write nor the
\* history append raises, the task ends with status IDLE, error_message
\* cleared (also when the link held an earlier error) and both timestamps
\* advanced, and its row is a SUCCESS row.
C7_SuccessWrite ==
    \A r \in Runs : (Done(r) /\ runs[r].result = "success" /\ obs[r].rec = "none") =>
        /\ obs[r].last = [status |-> "IDLE", error_message |-> "none",
                          checked |-> TRUE, success |-> TRUE]
        /\ obs[r].rows = <<"SUCCESS">>

C7_Witness ==
    \E r \in Runs :
        /\ Done(r) /\ runs[r].result = "success" /\ obs[r].rec = "none"
        /\ links[runs[r].link].status = "IDLE"
        /\ links[runs[r].link].error_message = "none"
        /\ Len(history[runs[r].link]) = 2
        /\ history[runs[r].link][1].status = "FAILURE"
        /\ history[runs[r].link][2].status = "SUCCESS"

\* C8: process_link returns normally whichever of the link fetch, the status
\* updates, the tool, the history append and the recovery step fails.
C8_NeverRaises ==
    \A r \in Runs : Done(r) => runs[r].exit = "returned"

C8_Witness ==
    \E r \in Runs : Done(r) /\ obs[r].rec = "failed" /\ runs[r].exit = "returned"

\* C9: the failure of one unit does not keep the other units of its batch from
\* being processed, and the batch finishes: a batch fails only in its own
\* selection query, every batch that has created its units finishes, and then
\* every unit has returned, with IDLE or ERROR written by each unit that found
\* its link and whose own recovery step did not fail.
C9_BatchIsolation ==
    /\ [](\A b \in Batches :
            /\ batches[b] = "failed" => UnitsOf(b) = {}
            /\ batches[b] = "finished" =>
                 \A r \in UnitsOf(b) :
                     /\ Done(r) /\ runs[r].exit = "returned"
                     /\ (obs[r].found /\ obs[r].rec \in {"none", "ok"}) =>
                          obs[r].last.status \in {"IDLE", "ERROR"})
    /\ \A b \in Batches : (batches[b] = "gathering") ~> (batches[b] = "finished")

C9_Witness ==
    \E b \in Batches : \E r1, r2 \in UnitsOf(b) :
        /\ batches[b] = "finished"
        /\ r1 # r2
        /\ Failed(r1)
        /\ runs[r2].result = "success" /\ obs[r2].last.status = "IDLE"

\* C10: at most one instance of the scheduled job runs at any time; a tick
\* that finds an instance running is dropped and changes nothing, and an
\* instance starts only at a tick that finds none running.
C10_SingleInstance ==
    /\ [](Cardinality(RunningInstances) <= 1)
    /\ [][ /\ (sched_event' = "max_instances" /\ sched_event # "max_instances") =>
                /\ RunningInstances # {}
                /\ UNCHANGED <<phase, K, links, history, runs, obs, batches, sem, response, faults>>
           /\ (\E b \in Batches : batches[b] = "idle" /\ batches'[b] # "idle") =>
                (RunningInstances = {} /\ sched_event' = "submitted")
         ]_vars

C10_Witness ==
    /\ sched_event = "max_instances"
    /\ Cardinality(RunningInstances) = 1
    /\ Unused # {}

\* The link holds an in-flight status that no task of this process wrote
Stale(l) ==
    /\ links[l].status \in InFlight
    /\ ~\E r \in Runs : runs[r].link = l /\ obs[r].last.status = links[l].status

\* C11: the startup reset leaves every link that was in DOWNLOADING, RECORDING
\* or MONITORING with status IDLE and error_message "Reset on startup", and
\* appends no history row.
C11_ResetMarksLinks ==
    [][ (phase = "startup" /\ phase' = "running") =>
          /\ \A l \in Links : links[l].status \in InFlight =>
                 (links'[l].status = "IDLE" /\ links'[l].error_message = "reset")
          /\ history' = history
      ]_vars

\* C12: before the startup reset has completed no tick has fired, no manual
\* trigger has been answered and no task exists; once it has completed, no
\* link holds an in-flight status left by a previous process, so no batch
\* selection sees one.
C12_ResetBeforeService ==
    /\ phase # "running" =>
         /\ \A r \in Runs : runs[r].pc = "free"
         /\ \A b \in Batches : batches[b] = "idle"
         /\ sched_event = "none" /\ response = "none"
    /\ phase = "running" => \A l \in Links : ~Stale(l)

C12_Witness ==
    \E b \in Batches, r \in Runs :
        /\ batches[b] = "gathering" /\ sched_event = "submitted"
        /\ runs[r].batch = b /\ runs[r].pc = "wait"
        /\ links[runs[r].link].status = "IDLE"
        /\ links[runs[r].link].last_checked_at = 1
        /\ history[runs[r].link] = <<>>
        /\ \A x \in Runs : runs[x].pc \in {"free", "wait"}

\* The task has taken a step
Stepped(r) == runs[r].pc # "free" /\ runs'[r] # runs[r]
RowKept(l) == links'[l] = links[l] /\ history'[l] = history[l]

\* C13: a batch unit whose link was disabled when the unit fetched it leaves
\* the link's status, error_message, timestamps and history unchanged, also
\* when a persistence call of the unit fails.
C13_DisabledLinkUntouched ==
    [][ \A r \in Runs :
          (Stepped(r) /\ runs[r].batch # 0 /\ obs[r].skipped) => RowKept(runs[r].link)
      ]_vars

\* C14: a process_link task whose link was missing or disabled when the task
\* fetched it writes no status, does not invoke the tool and appends no
\* history row.
C14_SkipIsNoOp ==
    [][ \A r \in Runs :
          (Stepped(r) /\ obs[r].skipped) =>
              /\ links' = links /\ history' = history
              /\ runs'[r].pc \notin {"start", "tool", "final", "log", "rec_log"}
      ]_vars

\* ---- download_media, call by call ----
Called(r) == obs[r].call.how # "none"
RoutedTo(r) == get_downloader_for_link(obs[r].call.site)
Range(f) == {f[i] : i \in 1..Len(f)}
Reported(r) == Range(obs[r].call.events) \ {0}
OnDisk(p) == os_path_exists(p) /\ os_path_isfile(p)
YdlAccepted(r) == {p \in Reported(r) : OnDisk(p) /\ ~temp_suffix(p)}
GdlAccepted(r) == {p \in Reported(r) : OnDisk(p)}
Outcome(r) == obs[r].call.result
FilesOf(r) == Outcome(r).downloaded_files
\* The tool finished successfully and no file was detected, and every
\* persistence call of the task succeeded
QuietSuccess(r) ==
    /\ Done(r) /\ Called(r) /\ obs[r].rec = "none"
    /\ obs[r].call.how = "returned" /\ obs[r].call.code = 0
    /\ IF RoutedTo(r) = "yt-dlp" THEN YdlAccepted(r) = {} ELSE GdlAccepted(r) = {}
EndsAsNoOutput(r) ==
    LET l == runs[r].link IN
    /\ links[l].status = "ERROR" /\ links[l].error_message = "no_files_detected"
    /\ obs[r].rows = <<"FAILURE">>
    /\ history[l][Len(history[l])] = create_log(l, "FAILURE", <<>>, "no_files_detected")

\* C15 as stated: whichever tool the link is routed to, a tool invocation that
\* finishes successfully with zero detected files ends with the link in ERROR
\* and one FAILURE row whose message says that no output was detected.
C15_ZeroFilesIsError == \A r \in Runs : QuietSuccess(r) => EndsAsNoOutput(r)

\* C15 amended: that holds of a link routed to yt-dlp; a link routed to
\* gallery-dl whose process exits with 0 and zero parsed files ends in IDLE
\* with one SUCCESS row without message (provided the task's persistence calls
\* succeed).
C15_ZeroFilesByTool ==
    \A r \in Runs :
        QuietSuccess(r) =>
            IF RoutedTo(r) = "yt-dlp"
            THEN EndsAsNoOutput(r)
            ELSE LET l == runs[r].link IN
                 /\ links[l].status = "IDLE" /\ links[l].error_message = "none"
                 /\ obs[r].rows = <<"SUCCESS">>
                 /\ history[l][Len(history[l])] = create_log(l, "SUCCESS", <<>>, "none")
C15_Witness ==
    \E r \in Runs :
        /\ QuietSuccess(r) /\ RoutedTo(r) = "gallery-dl"
        /\ obs[r].call.events = <<2>>
        /\ links[runs[r].link].status = "IDLE"

\* C16: gallery-dl reports success exactly when the exit code of the process
\* is 0, whatever the number of parsed files; exit code 0 with zero parsed
\* files gives success, an empty file list and no error.
C16_GdlSuccessIffExitZero ==
    \A r \in Runs :
        (Called(r) /\ RoutedTo(r) = "gallery-dl" /\ obs[r].call.how = "returned") =>
            /\ Outcome(r).status = "success" <=> obs[r].call.code = 0
            /\ obs[r].call.code = 0 => Outcome(r).error = "none"
            /\ (obs[r].call.code = 0 /\ GdlAccepted(r) = {}) =>
                   Outcome(r) = [status |-> "success", error |-> "none", downloaded_files |-> <<>>]
C16_Witness ==
    \E r \in Runs :
        /\ runs[r].pc = "final" /\ RoutedTo(r) = "gallery-dl"
        /\ obs[r].call.how = "returned" /\ obs[r].call.code = 0
        /\ obs[r].call.events = <<0, 2>>
        /\ Outcome(r).status = "success" /\ FilesOf(r) = <<>>

\* C17: yt-dlp reports success exactly when the library call returned without
\* raising and the hook accepted at least one file; a call that returns with
\* no accepted file is a failure with the 'no files detected' message.
C17_YdlSuccessIffFiles ==
    \A r \in Runs :
        (Called(r) /\ RoutedTo(r) = "yt-dlp") =>
            /\ Outcome(r).status = "success" <=>
                   (obs[r].call.how = "returned" /\ YdlAccepted(r) # {})
            /\ (obs[r].call.how = "returned" /\ YdlAccepted(r) = {}) =>
                   /\ Outcome(r).status = "error"
                   /\ Outcome(r).error = "no_files_detected"
C17_Witness ==
    \E r \in Runs :
        /\ runs[r].pc = "final" /\ RoutedTo(r) = "yt-dlp"
        /\ obs[r].call.how = "returned" /\ obs[r].call.events = <<3>>
        /\ Outcome(r).status = "error" /\ runs[r].error = "no_files_detected"

\* C18: when yt-dlp raises DownloadError the outcome is a failure with an
\* error message, and its file list holds every file the hook accepted before
\* the error, each once.
C18_DownloadErrorKeepsFiles ==
    \A r \in Runs :
        (Called(r) /\ obs[r].call.how = "DownloadError") =>
            /\ Outcome(r).status = "error" /\ Outcome(r).error # "none"
            /\ Range(FilesOf(r)) = YdlAccepted(r)
            /\ Len(FilesOf(r)) = Cardinality(YdlAccepted(r))
C18_Witness ==
    \E r \in Runs :
        /\ Called(r) /\ obs[r].call.how = "DownloadError"
        /\ obs[r].call.events = <<1, 5>>
        /\ FilesOf(r) = <<1, 5>> /\ Outcome(r).status = "error"

\* C19: with either tool, the file list of an outcome has no duplicate path
\* and holds only reported paths that were regular files on disk; a path
\* reported several times appears once, an absent path never.
C19_FilesUniqueAndOnDisk ==
    \A r \in Runs :
        Called(r) =>
            /\ Len(FilesOf(r)) = Cardinality(Range(FilesOf(r)))
            /\ \A p \in Range(FilesOf(r)) : p \in Reported(r) /\ OnDisk(p)
C19_Witness ==
    \E r \in Runs :
        /\ Called(r) /\ RoutedTo(r) = "gallery-dl"
        /\ obs[r].call.events = <<1, 1>> /\ FilesOf(r) = <<1>>

\* C20: when the gallery-dl executable is missing, the outcome is a failure of
\* the 'command not found' kind, which differs from the 'failed with code N'
\* kind of a non-zero exit, and download_media returns it instead of raising.
C20_MissingExecutable ==
    \A r \in Runs :
        Called(r) =>
            /\ obs[r].call.how = "FileNotFoundError" =>
                   /\ Outcome(r) = [status |-> "error", error |-> "command_not_found",
                                    downloaded_files |-> <<>>]
                   /\ runs[r].result = "error"
            /\ (RoutedTo(r) = "gallery-dl" /\ obs[r].call.how = "returned"
                  /\ obs[r].call.code # 0) =>
                   /\ Outcome(r).error = failed_with_code(obs[r].call.code)
                   /\ Outcome(r).error # "command_not_found"
C20_Witness ==
    \E r \in Runs :
        /\ runs[r].pc = "final" /\ obs[r].call.how = "FileNotFoundError"
        /\ runs[r].result = "error" /\ runs[r].error = "command_not_found"

Accepted(r) == IF RoutedTo(r) = "yt-dlp" THEN YdlAccepted(r) ELSE GdlAccepted(r)
\* The last row of the link of task r
RowOf(r) == history[runs[r].link][Len(history[runs[r].link])]
\* The row and the link say what the tool outcome of task r says
Mirrors(r, row) ==
    LET l == runs[r].link IN
    IF row.status = "SUCCESS"
    THEN /\ Outcome(r).status = "success"
         /\ row.downloaded_files = FilesOf(r)
         /\ row.error_message = "none"
    ELSE /\ Outcome(r).status = "error"
         /\ row.error_message = Outcome(r).error
         /\ links[l].error_message = Outcome(r).error

Triggered == {r \in Runs : runs[r].pc = "free" /\ runs'[r].pc # "free" /\ runs'[r].batch = 0}

\* C27: an accepted manual trigger starts exactly one process_link task for
\* its link and takes no slot of a batch semaphore: the task is inside
\* process_link at once, no step of it changes a semaphore, and the slots a
\* batch has left are K minus the batch's own units inside process_link.
C27_ManualBypassesGate ==
    /\ [](\A b \in Batches : batches[b] = "gathering" => sem[b] + Cardinality(Inside(b)) = K)
    /\ [][ /\ (response' = "200" /\ response # "200") => Triggered # {}
           /\ Triggered # {} =>
                /\ Cardinality(Triggered) = 1
                /\ response' = "200" /\ sem' = sem
                /\ \A r \in Runs : IF r \in Triggered
                                   THEN runs'[r].pc = "get" /\ links[runs'[r].link].exists
                                   ELSE runs'[r] = runs[r]
           /\ \A r \in Runs : (Stepped(r) /\ runs[r].batch = 0) => sem' = sem
         ]_vars
C27_Witness ==
    \E b \in Batches, r \in Runs :
        /\ batches[b] = "gathering" /\ Cardinality(Inside(b)) = K /\ sem[b] = 0
        /\ runs[r].batch = 0 /\ runs[r].pc = "get" /\ response = "200"
        /\ \A x \in Inside(b) : runs[x].link # runs[r].link

Returned(b) == batches[b] \in {"finished", "failed"}

\* C28: trigger_monitoring_job creates exactly one unit per selected link, and
\* no unit and no process_link call when no link is eligible; it returns only
\* after every unit it created has finished, so none of its units is running
\* once it has returned.
C28_OneUnitPerLinkAndWait ==
    /\ [](\A b \in Batches : Returned(b) => \A r \in UnitsOf(b) : Done(r))
    /\ [][ \A b \in Batches :
             /\ (batches[b] = "selecting" /\ batches'[b] = "gathering") =>
                  /\ Eligible # {}
                  /\ \A l \in Eligible :
                       Cardinality({r \in Runs : /\ runs[r].pc = "free" /\ runs'[r].pc = "wait"
                                                 /\ runs'[r].batch = b /\ runs'[r].link = l}) = 1
                  /\ \A r \in Runs : runs'[r] # runs[r] =>
                                         runs'[r].batch = b /\ runs'[r].link \in Eligible
             /\ (batches[b] = "selecting" /\ Returned(b)') =>
                  /\ runs' = runs
                  /\ batches'[b] = "finished" => Eligible = {}
             /\ (batches[b] = "gathering" /\ batches'[b] # "gathering") =>
                  /\ batches'[b] = "finished"
                  /\ \A r \in UnitsOf(b) : Done(r)
         ]_vars
C28_Witness ==
    \E b \in Batches :
        /\ batches[b] = "finished" /\ Cardinality(UnitsOf(b)) = 2
        /\ \A r \in UnitsOf(b) : Done(r) /\ obs[r].rows # <<>>
        /\ \E r1, r2 \in UnitsOf(b) : runs[r1].link # runs[r2].link

\* C29: when trigger_monitoring_job is called while another call of it is in
\* progress, no link is processed by a unit of each call at the same time.
C29_NoLinkInTwoCalls ==
    \A r1, r2 \in Runs :
        (/\ runs[r1].batch # 0 /\ runs[r2].batch # 0 /\ runs[r1].batch # runs[r2].batch
         /\ Acting(r1) /\ Acting(r2)) => runs[r1].link # runs[r2].link

ToolRunning(r) == runs[r].pc \in {"awaiting", "blocking"}

\* C30: while the tool invocation of a task is running, the event loop can
\* run something else: here the trigger endpoint can answer a request.
C30_LoopNotStalled ==
    \A r \in Runs : ToolRunning(r) => ENABLED (\E l \in Links : DlAnswer(l))

\* ---- get_downloader_for_link, call by call ----
Selected == sel.last.out.tool # "none"
\* The cookie file a returned configuration names (<<>> for none)
CookieOf(out) ==
    IF out.tool = "yt-dlp"
    THEN (IF "cookiefile" \in DOMAIN out.ydl_opts THEN out.ydl_opts.cookiefile ELSE <<>>)
    ELSE (IF Len(out.gdl_args) > Len(GDL_DEFAULT_ARGS) THEN out.gdl_args[Len(out.gdl_args)]
          ELSE <<>>)
\* The site name without regard to case
Folded(site) ==
    CASE site \in {"pixiv", "Pixiv"} -> "PIXIV"
      [] site = "DeviantArt" -> "DEVIANTART"
      [] site = "ArtStation" -> "ARTSTATION"
      [] site = "weibo" -> "WEIBO"
      [] site = "xiaohongshu" -> "XIAOHONGSHU"
      [] site \in {"YouTube", "youtube"} -> "YOUTUBE"
      [] site = "pixiv.net" -> "PIXIV.NET"
      [] OTHER -> site
FoldedGallery == {"PIXIV", "INSTAGRAM", "DEVIANTART", "ARTSTATION", "WEIBO", "XIAOHONGSHU"}

C23_GalleryIffListed ==
    Selected =>
        /\ sel.last.out.tool \in {"gallery-dl", "yt-dlp"}
        /\ sel.last.out.tool = "gallery-dl" <=> Folded(sel.last.link.site_name) \in FoldedGallery
        /\ sel.last.link.site_name = "" => sel.last.out.tool = "yt-dlp"
C23_Witness ==
    /\ sel.last.link.site_name = "DeviantArt" /\ sel.last.out.tool = "gallery-dl"
    /\ sel.first.link.site_name = "YouTube" /\ sel.first.out.tool = "yt-dlp"

\* C24: a yt-dlp configuration has the recordings template and
\* live_from_start exactly when the link kind is LIVE; for CREATOR it has the
\* default template and no live_from_start.
C24_LiveOptions ==
    sel.last.out.tool = "yt-dlp" =>
        LET opts == sel.last.out.ydl_opts IN
        IF sel.last.link.link_type = "LIVE"
        THEN /\ opts.outtmpl = "live_recordings_template"
             /\ "live_from_start" \in DOMAIN opts /\ opts.live_from_start = TRUE
        ELSE /\ opts.outtmpl = "creator_template"
             /\ "live_from_start" \notin DOMAIN opts
C24_Witness ==
    /\ sel.last.out.tool = "yt-dlp" /\ sel.last.link.link_type = "LIVE"
    /\ sel.last.link.site_name = "" /\ "live_from_start" \in DOMAIN sel.last.out.ydl_opts
    /\ CookieOf(sel.last.out) = <<>>

\* The file that the cookie reference of the last call's link names
OwnCookie == os_path_join(USER_COOKIES_DIR, sel.last.link.cookies_path)

\* C25: for both tools the cookie of the returned configuration is the link's
\* own file when that file exists, else the site's file when that exists,
\* else none; a file that is missing never appears.
C25_CookiePrecedence ==
    Selected =>
        IF sel.last.seen.in_user_dir
        THEN CookieOf(sel.last.out) \in {sel.last.link.cookies_path, OwnCookie}
        ELSE IF sel.last.seen.global_file
        THEN CookieOf(sel.last.out) = GlobalCookie
        ELSE CookieOf(sel.last.out) = <<>>

\* C26: when the cookie reference of the link names a file that exists under
\* the user-cookies directory, the cookie path of the configuration is the
\* project root joined with that directory and the reference, for both tools.
C26_CookiePathJoined ==
    (Selected /\ sel.last.seen.in_user_dir) => CookieOf(sel.last.out) = OwnCookie

\* ---- the link API and the tasks ----
\* The columns that the orchestration keeps
Owned(link) == <<link.status, link.error_message, link.last_checked_at, link.last_success_at>>

\* C31: the status, error_message, last-checked and last-success timestamp of
\* a link change only in a step of a process_link task for that link or in
\* the startup reset, never in a request of the link API.
C31_OnlyTasksWriteStatus ==
    [][ \A l \in Links :
          (links[l].exists /\ links'[l].exists /\ Owned(links'[l]) # Owned(links[l])) =>
              (phase = "startup" \/ \E r \in Runs : runs[r].link = l /\ Stepped(r))
      ]_vars

\* C32: a link that has been deleted has no history row, also when a task for
\* it was at work during the deletion and goes on afterwards.
C32_NoRowOfDeletedLink ==
    \A l \in Links : ~links[l].exists => history[l] = <<>>

\* The unit of a batch is in its tool invocation, which has not returned
InTool(r) == runs[r].batch # 0 /\ runs[r].pc = "tool"

\* C33: as long as the tool invocation of a unit of a batch has not returned,
\* the unit holds its slot of the semaphore, its batch is still running, every
\* scheduler tick is skipped and no other batch starts; the unit leaves the
\* invocation only by the tool's own return or exception.
C33_HungToolHoldsBatch ==
    /\ [](\A r \in Runs : InTool(r) =>
            /\ batches[runs[r].batch] = "gathering"
            /\ RunningInstances = {runs[r].batch}
            /\ r \in Inside(runs[r].batch)
            /\ sem[runs[r].batch] = K - Cardinality(Inside(runs[r].batch)))
    /\ [][ \A r \in Runs : InTool(r) =>
             /\ batches' = batches
             /\ sched_event' \in {sched_event, "max_instances"}
             /\ sem'[runs[r].batch] <= K - 1
             /\ runs'[r].pc # "tool" =>
                  /\ runs'[r].pc \in {"final", "rec_get"}
                  /\ UNCHANGED <<links, history, sem, faults>>
         ]_vars
C33_Witness ==
    \E r1, r2 \in Runs :
        /\ InTool(r1) /\ runs[r2].batch = runs[r1].batch /\ runs[r2].pc = "wait"
        /\ sem[runs[r1].batch] = 0
        /\ sched_event = "max_instances" /\ Unused # {}

\* The kind of the link as the table holds it
KindOf(r) == links[runs[r].link].link_type

\* C34: a task that is in its tool invocation has written, as its last write,
\* the start status of its link's kind (DOWNLOADING for CREATOR, RECORDING for
\* LIVE) with error_message cleared, the last-checked timestamp advanced and
\* the last-success timestamp left alone; the invocation starts only in the
\* step of that write, and a start write that raises leads to the recovery
\* step and not to the tool.
C34_StartWriteBeforeTool ==
    /\ [](\A r \in Runs : runs[r].pc = "tool" =>
            /\ obs[r].found
            /\ obs[r].last = [status |-> (IF KindOf(r) = "CREATOR" THEN "DOWNLOADING"
                                          ELSE "RECORDING"),
                              error_message |-> "none", checked |-> TRUE, success |-> FALSE]
            /\ ~obs[r].succ_set /\ obs[r].rec = "none")
    /\ [][ \A r \in Runs :
             /\ (runs[r].pc # "tool" /\ runs'[r].pc = "tool") =>
                  /\ runs[r].pc = "start"
                  /\ links'[runs[r].link].status \in {"DOWNLOADING", "RECORDING"}
                  /\ links'[runs[r].link].error_message = "none"
                  /\ links'[runs[r].link].last_checked_at > links[runs[r].link].last_checked_at
                  /\ links'[runs[r].link].last_success_at = links[runs[r].link].last_success_at
             /\ (runs[r].pc = "start" /\ Stepped(r) /\ runs'[r].pc # "tool") =>
                  (runs'[r].pc = "rec_get" /\ faults' > faults)
         ]_vars
C34_Witness ==
    \E r1, r2 \in Runs :
        /\ Done(r1) /\ runs[r1].result = "error" /\ runs[r1].link = runs[r2].link
        /\ runs[r2].pc = "tool" /\ KindOf(r2) = "LIVE"
        /\ links[runs[r2].link].status = "RECORDING"
        /\ links[runs[r2].link].error_message = "none"
        /\ links[runs[r2].link].last_success_at = 0
        /\ Len(history[runs[r2].link]) = 1 /\ history[runs[r2].link][1].status = "FAILURE"

\* The task is in its recovery step and has found its link again
Refetched(r) == runs[r].pc \in {"rec_upd", "rec_log"}
ExceptionRow(l) == create_log(l, "FAILURE", <<>>, "exception")

\* C35 as stated: once the re-fetch of the recovery step has found the link,
\* the status is set to ERROR with the exception message and one FAILURE row
\* with that message is appended.
C35_RecoveryAlwaysCompletes ==
    [][ \A r \in Runs : LET l == runs[r].link IN
          /\ (runs[r].pc = "rec_upd" /\ Stepped(r)) =>
               /\ runs'[r].pc = "rec_log"
               /\ links'[l].status = "ERROR" /\ links'[l].error_message = "exception"
          /\ (runs[r].pc = "rec_log" /\ Stepped(r)) =>
               history'[l] = Append(history[l], ExceptionRow(l))
      ]_vars

\* C35 amended: a task re-fetches its link once after an exception.  When the
\* re-fetch finds nothing or raises, the task ends and writes nothing.  When
\* it finds the link, the task tries the status write, and after a status
\* write that returned it tries the append: a write that returns sets ERROR
\* with the exception message, an append that returns adds one FAILURE row
\* with that message, and the first of the two that raises ends the recovery
\* (a status write or an append that raised after its commit stays stored).
C35_RecoveryStepByStep ==
    [][ \A r \in Runs : LET l == runs[r].link IN
          /\ (runs'[r].pc = "rec_get" /\ runs[r].pc # "rec_get") =>
               runs[r].pc \in {"get", "start", "tool", "awaiting", "blocking", "final", "log"}
          /\ (runs[r].pc = "rec_get" /\ Stepped(r)) =>
               /\ links' = links /\ history' = history
               /\ IF runs'[r].pc = "rec_upd" THEN links[l].exists /\ faults' = faults
                  ELSE /\ runs'[r].pc = "done"
                       /\ obs'[r].rec = (IF faults' = faults THEN "notfound" ELSE "failed")
          /\ (runs[r].pc = "rec_upd" /\ Stepped(r)) =>
               /\ history' = history
               /\ IF runs'[r].pc = "rec_log"
                  THEN /\ links'[l].status = "ERROR" /\ links'[l].error_message = "exception"
                       /\ links'[l].last_success_at = links[l].last_success_at
                  ELSE runs'[r].pc = "done" /\ obs'[r].rec = "failed"
          /\ (runs[r].pc = "rec_log" /\ Stepped(r)) =>
               /\ links' = links /\ runs'[r].pc = "done"
               /\ IF obs'[r].rec = "ok"
                  THEN history'[l] = Append(history[l], ExceptionRow(l))
                  ELSE history'[l] \in {history[l], Append(history[l], ExceptionRow(l))}
      ]_vars
C35_Witness ==
    \E r1, r2 \in Runs :
        /\ Done(r1) /\ obs[r1].rec = "ok" /\ obs[r1].rows = <<"FAILURE">>
        /\ links[runs[r1].link].status = "ERROR"
        /\ links[runs[r1].link].error_message = "exception"
        /\ history[runs[r1].link] = <<ExceptionRow(runs[r1].link)>>
        /\ Done(r2) /\ obs[r2].rec = "failed" /\ obs[r2].rows = <<>>
        /\ obs[r2].last.status \in {"DOWNLOADING", "RECORDING"}

\* The links at rest: enabled, with status IDLE or ERROR
AtRest == {l \in Links : links[l].exists /\ links[l].is_enabled /\ links[l].status \in {"IDLE", "ERROR"}}
\* The units that a step creates for batch b
Created(b) == {r \in Runs : runs[r].pc = "free" /\ runs'[r].pc = "wait" /\ runs'[r].batch = b}

\* C36: a batch whose selection query returns creates a unit of work for
\* every enabled link whose status is IDLE or ERROR at that moment, and
\* finishes without a unit only when there is no such link; a link that a
\* failed attempt left in ERROR is selected by the next batch as it is.
C36_RestStatesSelected ==
    [][ \A b \in Batches :
          /\ (batches[b] = "selecting" /\ batches'[b] = "gathering") =>
               /\ AtRest # {}
               /\ \A l \in AtRest : \E r \in Created(b) : runs'[r].link = l
               /\ links' = links
          /\ (batches[b] = "selecting" /\ batches'[b] = "finished") => AtRest = {}
      ]_vars
C36_Witness ==
    \E r1, r2 \in Runs :
        /\ Done(r1) /\ runs[r1].result = "error" /\ obs[r1].rows = <<"FAILURE">>
        /\ runs[r1].batch # 0 /\ batches[runs[r1].batch] = "finished"
        /\ runs[r2].pc = "wait" /\ runs[r2].batch # 0 /\ runs[r2].batch # runs[r1].batch
        /\ runs[r2].link = runs[r1].link
        /\ links[runs[r2].link].status = "ERROR"
        /\ links[runs[r2].link].error_message = "tool"

\* C37: the terminal status write and the history append of a task are two
\* steps: a row is appended only by a task that has already committed IDLE or
\* ERROR, in a step that leaves the table link alone; between the two the
\* database holds the terminal status of the attempt and no row for it.
C37_StatusThenRow ==
    /\ [](\A r \in Runs : runs[r].pc = "log" =>
            /\ obs[r].last.status = (IF runs[r].result = "success" THEN "IDLE" ELSE "ERROR")
            /\ obs[r].rows = <<>>)
    /\ [][ \A l \in Links : history'[l] # history[l] =>
             /\ links' = links
             /\ \E r \in Runs : /\ runs[r].link = l /\ Stepped(r)
                                /\ runs[r].pc \in {"log", "rec_log"}
                                /\ obs[r].last.status \in {"IDLE", "ERROR"}
         ]_vars
C37_Witness ==
    \E r \in Runs :
        /\ runs[r].pc = "log" /\ runs[r].result = "success"
        /\ links[runs[r].link].status = "IDLE"
        /\ links[runs[r].link].last_success_at > 0
        /\ history[runs[r].link] = <<>>
        /\ \A x \in Runs : x # r => runs[x].pc = "free"

\* The statuses a task may write to a link of kind lt
WritableBy(lt) == {"IDLE", "ERROR", IF lt = "CREATOR" THEN "DOWNLOADING" ELSE "RECORDING"}

\* C38: no step of the startup reset, a batch, a manual trigger or a task
\* stores the status MONITORING; a status that a step stores is IDLE, ERROR,
\* DOWNLOADING for a CREATOR link or RECORDING for a LIVE link, and the same
\* holds of the last status every task wrote.
C38_StatusesWritten ==
    /\ [](\A r \in Runs : runs[r].pc # "free" =>
            obs[r].last.status \in WritableBy(KindOf(r)) \cup {"none"})
    /\ [][ \A l \in Links :
             (links'[l].status # links[l].status \/ links'[l].last_checked_at # links[l].last_checked_at)
                 => links'[l].status \in WritableBy(links[l].link_type)
         ]_vars
C38_Witness ==
    \E r1, r2 \in Runs :
        /\ runs[r1].pc = "tool" /\ KindOf(r1) = "LIVE" /\ obs[r1].last.status = "RECORDING"
        /\ links[runs[r1].link].status = "RECORDING"
        /\ runs[r2].pc = "tool" /\ KindOf(r2) = "CREATOR" /\ obs[r2].last.status = "DOWNLOADING"
        /\ links[runs[r2].link].status = "DOWNLOADING"

\* C39: no FAILURE row of the table carries a file list; the row of an
\* attempt whose tool outcome is a failure with files (yt-dlp DownloadError
\* after finished files, gallery-dl with a non-zero exit code after parsed
\* files) has the outcome's message and no files.
C39_FailureRowHasNoFiles ==
    /\ \A l \in Links : \A i \in 1..Len(history[l]) :
           history[l][i].status = "FAILURE" => history[l][i].downloaded_files = <<>>
    /\ \A r \in Runs :
           (Done(r) /\ Called(r) /\ obs[r].rec = "none" /\ Outcome(r).status = "error") =>
               RowOf(r) = create_log(runs[r].link, "FAILURE", <<>>, Outcome(r).error)
C39_Witness ==
    \E r \in Runs :
        /\ Done(r) /\ obs[r].rec = "none"
        /\ obs[r].call.how = "DownloadError" /\ obs[r].call.events = <<1, 5>>
        /\ FilesOf(r) = <<1, 5>>
        /\ RowOf(r) = create_log(runs[r].link, "FAILURE", <<>>, "download_error")
====
